---- MODULE Spec2Model ----
(***************************************************************************)
(* Model of photo-duplicate-gui-v2.py: PhotoDuplicateHandler (scan, group, *)
(* keeper selection, relocation) driven by DuplicatePhotoApp's             *)
(* start_processing / process_duplicates.                                  *)
(*                                                                         *)
(* Representation.  A directory path is a sequence of directory names, a   *)
(* name is a sequence of one-character strings.  The marker the program    *)
(* appends to a parent's name to form its holding directory is the single  *)
(* token DupMark.  A file name is kept split the way pathlib splits it:    *)
(* [stem, suffix].  Dates are ticks, None is Python's None.                 *)
(* A perceptual hash is the set of its 1-bits among HashBits positions.    *)
(* Similarities and thresholds are compared exactly as rationals           *)
(* (n/64 against percent/100); every n/64 is exact in binary floating      *)
(* point and the only percents p with p/100 = n/64 are 0, 25, 50, 75, 100, *)
(* which are exact too, so the comparison agrees with the floats.          *)
(***************************************************************************)
EXTENDS Integers, Sequences, FiniteSets, TLC

\* ---- bounds of the model
MaxFiles  == 2
MaxDirs   == 2
MaxFaults == 1
MaxPool   == 3

\* ---- program constants
None        == 0
HashBits    == 64
MaxPercent  == 99
DatetimeMax == 3

DupMark == "DUP"

Jpg      == <<".", "j", "p", "g">>
JpgUpper == <<".", "J", "P", "G">>
Txt      == <<".", "t", "x", "t">>

photo_extensions ==
  { Jpg, <<".", "j", "p", "e", "g">>, <<".", "p", "n", "g">>,
    <<".", "g", "i", "f">>, <<".", "b", "m", "p">> }

LowerChar(c) ==
  CASE c = "J" -> "j" [] c = "P" -> "p" [] c = "G" -> "g" [] OTHER -> c

Lower(s) == [i \in 1..Len(s) |-> LowerChar(s[i])]

DigitChars == <<"0", "1", "2", "3", "4", "5", "6", "7", "8", "9">>

RECURSIVE Str(_)
Str(k) == IF k < 10 THEN <<DigitChars[k + 1]>>
          ELSE Str(k \div 10) \o <<DigitChars[(k % 10) + 1]>>

\* ---- paths
Last(s) == s[Len(s)]

\* photo_info.path.parent / f"{photo_info.path.parent.name}重複"
HoldingDir(parent) == Append(parent, Append(Last(parent), DupMark))

IsPrefix(d, e) == Len(d) <= Len(e) /\ SubSeq(e, 1, Len(d)) = d

\* f"{stem}({counter}){suffix}"
Numbered(name, counter) ==
  [stem |-> name.stem \o <<"(">> \o Str(counter) \o <<")">>, suffix |-> name.suffix]

\* ---- the directory tree the runs start from
DirD    == << <<"d">> >>
DirHold == HoldingDir(DirD)
DirMissing == << <<"m">> >>

NameA  == [stem |-> <<"a">>, suffix |-> JpgUpper]
NameA1 == Numbered(NameA, 1)
NameC  == [stem |-> <<"c">>, suffix |-> Txt]

\* d/a.JPG and d/c.txt, and what an earlier run can have left in d's
\* holding directory: a.JPG and a(1).JPG
InitPaths ==
  { [parent |-> DirD, name |-> NameA],
    [parent |-> DirD, name |-> NameC],
    [parent |-> DirHold, name |-> NameA],
    [parent |-> DirHold, name |-> NameA1] }

Roots == {DirD, DirMissing}

\* File contents.  The digest, the perceptual hash and the EXIF date are
\* functions of the bytes: "A" decodes, has no EXIF date; "B" is a re-encoding
\* two hash bits away from "A" carrying an EXIF date; "N" does not decode.
Contents == {"A", "B", "N"}

\* For the runs that exercise the clustering: also "C", another re-encoding
\* two hash bits away from "A" and four away from "B", without an EXIF date.
SimilarContents == Contents \cup {"C"}

\* dates: ticks, every one earlier than datetime.max
Dates == {1, 2}

Percents == {0, 95, 99, 100}

VARIABLES
  files,            \* file path -> [content, mtime]
  dirs,             \* existing directories
  source_dirs,      \* DuplicatePhotoApp.source_dirs
  exact_match_var,  \* the checkbox
  similarity_var,   \* the threshold entry, in percent
  pc,               \* position of the run
  scanned,          \* PhotoInfo records in the order they were built
  hash_map,         \* digest -> records, as a sequence in insertion order
  groups,           \* groups handle_duplicates processes, in order
  gi,               \* index of the next group
  sorted_photos,    \* the current group, sorted
  fi,               \* index of the next non-kept member
  processed_dirs,
  result,           \* what handle_duplicates returned
  decisions,        \* history: [keep, members] of every group begun
  moves,            \* history: [src, dst] of every successful move
  errors,           \* history: paths whose move failed and was logged
  faults            \* number of injected I/O failures

vars == <<files, dirs, source_dirs, exact_match_var, similarity_var, pc,
          scanned, hash_map, groups, gi, sorted_photos, fi, processed_dirs,
          result, decisions, moves, errors, faults>>

\* ---- fingerprinter
calculate_file_hash(path) == files[path].content

calculate_image_hash(path) ==
  CASE files[path].content = "A" -> [none |-> FALSE, bits |-> {}]
    [] files[path].content = "B" -> [none |-> FALSE, bits |-> {1, 2}]
    [] files[path].content = "C" -> [none |-> FALSE, bits |-> {3, 4}]
    [] OTHER -> [none |-> TRUE, bits |-> {}]

get_image_shoot_date(path) ==
  IF files[path].content = "B" THEN 1 ELSE None

get_file_modified_date(path) == files[path].mtime

\* the similarity in 64ths
calculate_similarity(hash1, hash2) ==
  IF hash1.none \/ hash2.none THEN 0
  ELSE HashBits - Cardinality((hash1.bits \ hash2.bits) \cup (hash2.bits \ hash1.bits))

\* similarity >= self.similarity_threshold, threshold = percent / 100
MeetsThreshold(sim, percent) == sim * 100 >= percent * HashBits

\* ---- scanner
RECURSIVE Perms(_)
Perms(S) == IF S = {} THEN {<<>>}
            ELSE UNION {{<<x>> \o p : p \in Perms(S \ {x})} : x \in S}

\* The orders in which a walk of the tree can list the files: the order
\* within a directory is the file system's, and the entries of a directory
\* come before the entries of the directories below it.
Listings ==
  {o \in Perms(DOMAIN files) :
     \A i, j \in 1..Len(o) :
       (i < j) => ~(o[j].parent # o[i].parent /\ IsPrefix(o[j].parent, o[i].parent))}

\* source_dir.rglob("*"): nothing for a directory that does not exist
rglob(source_dir, order) ==
  IF source_dir \in dirs
  THEN SelectSeq(order, LAMBDA p : IsPrefix(source_dir, p.parent))
  ELSE <<>>

PhotoInfo(path) ==
  [path        |-> path,
   hash_value  |-> calculate_file_hash(path),
   image_hash  |-> calculate_image_hash(path),
   shoot_date  |-> get_image_shoot_date(path),
   modify_date |-> get_file_modified_date(path)]

RECURSIVE ScanList(_, _)
ScanList(srcs, order) ==
  IF srcs = <<>> THEN <<>>
  ELSE LET found == SelectSeq(rglob(Head(srcs), order),
                              LAMBDA p : Lower(p.name.suffix) \in photo_extensions)
       IN  [i \in 1..Len(found) |-> PhotoInfo(found[i])] \o ScanList(Tail(srcs), order)

\* hash_map[file_hash].append(photo_info)
MapAppend(hm, info) ==
  IF \E i \in 1..Len(hm) : hm[i].hash = info.hash_value
  THEN [i \in 1..Len(hm) |->
          IF hm[i].hash = info.hash_value
          THEN [hm[i] EXCEPT !.infos = Append(@, info)] ELSE hm[i]]
  ELSE Append(hm, [hash |-> info.hash_value, infos |-> <<info>>])

RECURSIVE BuildMap(_, _)
BuildMap(hm, s) ==
  IF s = <<>> THEN hm ELSE BuildMap(MapAppend(hm, Head(s)), Tail(s))

get_photo_files(order) == BuildMap(<<>>, ScanList(source_dirs, order))

\* ---- resolution policy
PyOr(a, b) == IF a # None THEN a ELSE b

get_compare_key(photo) ==
  <<PyOr(PyOr(photo.shoot_date, photo.modify_date), DatetimeMax),
    Len(photo.path.name.stem)>>

KeyLess(k1, k2) == k1[1] < k2[1] \/ (k1[1] = k2[1] /\ k1[2] < k2[2])

\* faulty variant: the group is left in scan order
Sort_Unsorted(photos) == photos

\* sorted(photos, key=get_compare_key): stable, ascending
RECURSIVE sort_photos_by_date_and_name(_)
sort_photos_by_date_and_name(photos) ==
  IF photos = <<>> THEN <<>>
  ELSE LET n == Len(photos)
           x == photos[n]
           t == sort_photos_by_date_and_name(SubSeq(photos, 1, n - 1))
           k == Cardinality({i \in 1..Len(t) :
                  ~KeyLess(get_compare_key(x), get_compare_key(t[i]))})
       IN  SubSeq(t, 1, k) \o <<x>> \o SubSeq(t, k + 1, Len(t))

\* ---- grouper
\* the loop over photos that fills md5_groups and exact_match_paths
RECURSIVE ExactMatchPaths(_, _, _)
ExactMatchPaths(photos, md5_groups, paths) ==
  IF photos = <<>> THEN paths
  ELSE LET m == MapAppend(md5_groups, Head(photos))
           g == (CHOOSE e \in {m[i] : i \in 1..Len(m)} :
                   e.hash = Head(photos).hash_value).infos
       IN  ExactMatchPaths(Tail(photos), m,
             IF Len(g) > 1 THEN paths \cup {g[i].path : i \in 1..Len(g)} ELSE paths)

\* faulty variant: a candidate is compared with every member of the group
RECURSIVE GrowGroup_AnyMember(_, _, _, _, _)
GrowGroup_AnyMember(photo1, rest, percent, current_group, processed) ==
  IF rest = <<>> THEN [group |-> current_group, processed |-> processed]
  ELSE LET photo2 == Head(rest)
           joins  == /\ photo2.path \notin processed
                     /\ \E i \in DOMAIN current_group :
                          MeetsThreshold(
                            calculate_similarity(current_group[i].image_hash,
                                                 photo2.image_hash),
                            percent)
       IN  IF joins
           THEN GrowGroup_AnyMember(photo1, Tail(rest), percent,
                                    Append(current_group, photo2),
                                    processed \cup {photo2.path})
           ELSE GrowGroup_AnyMember(photo1, Tail(rest), percent, current_group,
                                    processed)

\* the inner loop of find_similar_images over unique_photos[i+1:]
RECURSIVE GrowGroup(_, _, _, _, _)
GrowGroup(photo1, rest, percent, current_group, processed) ==
  IF rest = <<>> THEN [group |-> current_group, processed |-> processed]
  ELSE LET photo2 == Head(rest)
           joins  == /\ photo2.path \notin processed
                     /\ MeetsThreshold(
                          calculate_similarity(photo1.image_hash, photo2.image_hash),
                          percent)
       IN  IF joins
           THEN GrowGroup(photo1, Tail(rest), percent,
                          Append(current_group, photo2), processed \cup {photo2.path})
           ELSE GrowGroup(photo1, Tail(rest), percent, current_group, processed)

\* the outer loop of find_similar_images
RECURSIVE Cluster(_, _, _, _, _)
Cluster(unique_photos, i, percent, processed, similar_groups) ==
  IF i > Len(unique_photos) THEN similar_groups
  ELSE IF unique_photos[i].path \in processed
       THEN Cluster(unique_photos, i + 1, percent, processed, similar_groups)
       ELSE LET r == GrowGroup(unique_photos[i],
                               SubSeq(unique_photos, i + 1, Len(unique_photos)),
                               percent, <<unique_photos[i]>>,
                               processed \cup {unique_photos[i].path})
            IN  Cluster(unique_photos, i + 1, percent, r.processed,
                        IF Len(r.group) > 1 THEN Append(similar_groups, r.group)
                        ELSE similar_groups)

\* faulty variant: exact duplicates stay in the similarity pool
UniquePhotos_NoExclusion(photos) == photos

UniquePhotos(photos) ==
  LET exact_match_paths == ExactMatchPaths(photos, <<>>, {})
  IN  SelectSeq(photos, LAMBDA p : p.path \notin exact_match_paths)

find_similar_images(photos, percent) ==
  Cluster(UniquePhotos(photos), 1, percent, {}, <<>>)

\* faulty variant: partitions of one record are processed as groups too
ExactGroups_Singletons(hm) == [i \in 1..Len(hm) |-> hm[i].infos]

\* the exact_match_only branch of handle_duplicates
ExactGroups(hm) ==
  LET big == SelectSeq(hm, LAMBDA e : Len(e.infos) > 1)
  IN  [i \in 1..Len(big) |-> big[i].infos]

\* all_photos.extend(photo_infos) over hash_map.values()
RECURSIVE AllPhotos(_)
AllPhotos(hm) == IF hm = <<>> THEN <<>> ELSE Head(hm).infos \o AllPhotos(Tail(hm))

\* ---- relocator
\* the while new_path.exists() loop: the first counter whose name is free
RECURSIVE FirstFree(_, _, _)
FirstFree(duplicate_dir, name, counter) ==
  IF [parent |-> duplicate_dir, name |-> Numbered(name, counter)] \in DOMAIN files
  THEN FirstFree(duplicate_dir, name, counter + 1)
  ELSE counter

\* faulty variant: the destination is not tested for existence
NewPath_Overwrites(photo_info) ==
  [parent |-> HoldingDir(photo_info.path.parent), name |-> photo_info.path.name]

NewPath(photo_info) ==
  LET duplicate_dir == HoldingDir(photo_info.path.parent)
      new_path      == [parent |-> duplicate_dir, name |-> photo_info.path.name]
  IN  IF new_path \in DOMAIN files
      THEN [parent |-> duplicate_dir,
            name   |-> Numbered(photo_info.path.name,
                                FirstFree(duplicate_dir, photo_info.path.name, 1))]
      ELSE new_path

\* shutil.move(src, dst) on files: dst takes the content, replacing what was there
shutil_move(src, dst) ==
  [p \in (DOMAIN files \ {src}) \cup {dst} |-> IF p = dst THEN files[src] ELSE files[p]]

\* ---- the states a run can start from
Attrs == [content : Contents, mtime : Dates]

FileSystems(P) ==
  {f \in [P -> Attrs] :
     \A p \in P : Lower(p.name.suffix) \notin photo_extensions => f[p].content = "N"}

Init ==
  /\ files \in UNION {FileSystems(P) :
                        P \in {Q \in SUBSET InitPaths : Cardinality(Q) <= MaxFiles}}
  /\ dirs = {DirD} \cup {p.parent : p \in DOMAIN files}
  /\ source_dirs \in UNION {[1..n -> Roots] : n \in 0..MaxDirs}
  /\ exact_match_var \in BOOLEAN
  /\ similarity_var \in Percents
  /\ pc = "idle"
  /\ scanned = <<>>
  /\ hash_map = <<>>
  /\ groups = <<>>
  /\ gi = 0
  /\ sorted_photos = <<>>
  /\ fi = 0
  /\ processed_dirs = {}
  /\ result = {}
  /\ decisions = <<>>
  /\ moves = <<>>
  /\ errors = <<>>
  /\ faults = 0

\* ---- operations
\* start_processing: validation, then the worker thread is started
StartProcessing ==
  /\ pc = "idle"
  /\ pc' = IF source_dirs = <<>> THEN "rejected"
           ELSE IF ~(0 <= similarity_var /\ similarity_var <= MaxPercent) THEN "rejected"
           ELSE "running"
  /\ UNCHANGED <<files, dirs, source_dirs, exact_match_var, similarity_var,
                 scanned, hash_map, groups, gi, sorted_photos, fi, processed_dirs,
                 result, decisions, moves, errors, faults>>

\* handle_duplicates up to the first group: scan, then choose the groups
HandleDuplicates ==
  /\ pc = "running"
  /\ \E order \in Listings :
       LET hm == get_photo_files(order)
       IN  /\ scanned' = ScanList(source_dirs, order)
           /\ hash_map' = hm
           /\ groups' = IF exact_match_var THEN ExactGroups(hm)
                        ELSE find_similar_images(AllPhotos(hm), similarity_var)
  /\ gi' = 1
  /\ processed_dirs' = {}
  /\ pc' = "select"
  /\ UNCHANGED <<files, dirs, source_dirs, exact_match_var, similarity_var,
                 sorted_photos, fi, result, decisions, moves, errors, faults>>

\* _process_duplicate_group, before its loop: sort and choose the keeper
ProcessDuplicateGroup ==
  /\ pc = "select"
  /\ gi <= Len(groups)
  /\ LET s == sort_photos_by_date_and_name(groups[gi])
     IN  /\ sorted_photos' = s
         /\ decisions' = Append(decisions, [keep |-> s[1], members |-> s])
  /\ fi' = 2
  /\ pc' = "moving"
  /\ UNCHANGED <<files, dirs, source_dirs, exact_match_var, similarity_var,
                 scanned, hash_map, groups, gi, processed_dirs, result, moves,
                 errors, faults>>

\* one iteration of the loop of _process_duplicate_group
MoveFile ==
  /\ pc = "moving"
  /\ fi <= Len(sorted_photos)
  /\ LET photo_info    == sorted_photos[fi]
         duplicate_dir == HoldingDir(photo_info.path.parent)
         new_path      == NewPath(photo_info)
         last          == fi = Len(sorted_photos)
     IN  \E outcome \in {"ok", "mkdir_error", "move_error"} :
           /\ outcome # "ok" => faults < MaxFaults
           /\ outcome = "mkdir_error" => duplicate_dir \notin dirs
           /\ outcome = "move_error" => photo_info.path \in DOMAIN files
           /\ faults' = IF outcome = "ok" THEN faults ELSE faults + 1
           /\ IF outcome = "mkdir_error"
              THEN \* mkdir is outside the try: the exception leaves
                   \* handle_duplicates and process_duplicates reports it
                   /\ pc' = "failed"
                   /\ UNCHANGED <<files, dirs, moves, errors, processed_dirs, fi, gi>>
              ELSE /\ dirs' = dirs \cup {duplicate_dir}
                   /\ IF outcome = "ok" /\ photo_info.path \in DOMAIN files
                      THEN /\ files' = shutil_move(photo_info.path, new_path)
                           /\ moves' = Append(moves, [src |-> photo_info.path,
                                                      dst |-> new_path])
                           /\ UNCHANGED errors
                      ELSE /\ errors' = Append(errors, photo_info.path)
                           /\ UNCHANGED <<files, moves>>
                   /\ processed_dirs' = processed_dirs \cup {duplicate_dir}
                   /\ fi' = fi + 1
                   /\ gi' = IF last THEN gi + 1 ELSE gi
                   /\ pc' = IF last THEN "select" ELSE "moving"
  /\ UNCHANGED <<source_dirs, exact_match_var, similarity_var, scanned, hash_map,
                 groups, sorted_photos, result, decisions>>

\* return processed_dirs; process_duplicates schedules processing_completed
Return ==
  /\ pc = "select"
  /\ gi > Len(groups)
  /\ result' = processed_dirs
  /\ pc' = "completed"
  /\ UNCHANGED <<files, dirs, source_dirs, exact_match_var, similarity_var,
                 scanned, hash_map, groups, gi, sorted_photos, fi, processed_dirs,
                 decisions, moves, errors, faults>>

Next == StartProcessing \/ HandleDuplicates \/ ProcessDuplicateGroup \/ MoveFile \/ Return

Spec == Init /\ [][Next]_vars

\* ---- runs in similarity mode over up to MaxPool files of four contents
SimilarFileSystems(P) ==
  {f \in [P -> [content : SimilarContents, mtime : Dates]] :
     \A p \in P : Lower(p.name.suffix) \notin photo_extensions => f[p].content = "N"}

InitSimilar ==
  /\ files \in UNION {SimilarFileSystems(P) :
                        P \in {Q \in SUBSET InitPaths : Cardinality(Q) <= MaxPool}}
  /\ dirs = {DirD} \cup {p.parent : p \in DOMAIN files}
  /\ source_dirs \in UNION {[1..n -> {DirD}] : n \in 1..MaxDirs}
  /\ exact_match_var = FALSE
  /\ similarity_var \in Percents
  /\ pc = "idle"
  /\ scanned = <<>>
  /\ hash_map = <<>>
  /\ groups = <<>>
  /\ gi = 0
  /\ sorted_photos = <<>>
  /\ fi = 0
  /\ processed_dirs = {}
  /\ result = {}
  /\ decisions = <<>>
  /\ moves = <<>>
  /\ errors = <<>>
  /\ faults = 0

SpecSimilar == InitSimilar /\ [][Next]_vars

\* ---- properties
Range(s) == {s[i] : i \in DOMAIN s}

Scanning == pc \in {"select", "moving", "completed", "failed"}

\* a directory named <parent-directory-name> + DupMark, or below one
InHolding(dir) == \E i \in 2..Len(dir) : dir[i] = Append(dir[i - 1], DupMark)

\* where the file that was at path when the run started is after the moves
RECURSIVE Locate(_, _)
Locate(path, i) ==
  IF i > Len(moves) THEN path
  ELSE Locate(IF moves[i].src = path THEN moves[i].dst ELSE path, i + 1)

DistinctSources ==
  \A i, j \in DOMAIN source_dirs : i # j => source_dirs[i] # source_dirs[j]

DigestCount(h) == Cardinality({i \in DOMAIN scanned : scanned[i].hash_value = h})

Occurrences(s, r) == Cardinality({i \in DOMAIN s : s[i] = r})

EffectiveDate(p) == IF p.shoot_date # None THEN p.shoot_date ELSE p.modify_date

\* key a is strictly smaller than key b, on (effective date, stem length)
StrictlyBefore(a, b) ==
  \/ EffectiveDate(a) < EffectiveDate(b)
  \/ /\ EffectiveDate(a) = EffectiveDate(b)
     /\ Len(a.path.name.stem) < Len(b.path.name.stem)

\* C1: when a run has ended, every record chosen as keeper was never the
\* source of a move and its file is still at its original path.
C1_KeeperNeverMoved ==
  pc = "completed" =>
    \A d \in Range(decisions) :
      /\ d.keep.path \in DOMAIN files
      /\ \A m \in Range(moves) : m.src # d.keep.path

C3_KeeperNotInHolding ==
  (pc = "completed" /\ DistinctSources) =>
    \A d \in Range(decisions) : ~InHolding(Locate(d.keep.path, 1).parent)

\* C4: in every group begun, the keeper is a member of the group and no
\* member has a strictly smaller (effective date, stem length) key.
C4_KeeperHasMinimumKey ==
  \A i \in DOMAIN decisions :
    /\ decisions[i].keep \in Range(groups[i])
    /\ \A p \in Range(groups[i]) : ~StrictlyBefore(p, decisions[i].keep)

C4_Witness ==
  \E i \in DOMAIN decisions :
    /\ StrictlyBefore(decisions[i].keep, groups[i][1])
    /\ \E p \in Range(groups[i]) :
         /\ EffectiveDate(p) = EffectiveDate(decisions[i].keep)
         /\ StrictlyBefore(decisions[i].keep, p)

\* C5: in exact mode the groups are exactly the digest partitions of the
\* scanned records that have at least 2 members, and a file whose digest is
\* unique among the scanned records is never moved.
C5_ExactGroupsArePartitions ==
  (exact_match_var /\ Scanning) =>
    /\ \A g \in Range(groups) :
         /\ Len(g) >= 2
         /\ \A r \in Range(g) : r.hash_value = g[1].hash_value
         /\ Len(g) = DigestCount(g[1].hash_value)
         /\ \A r \in Range(g) : Occurrences(g, r) = Occurrences(scanned, r)
    /\ \A r \in Range(scanned) :
         DigestCount(r.hash_value) >= 2 =>
           \E g \in Range(groups) : g[1].hash_value = r.hash_value
    /\ \A i, j \in DOMAIN groups :
         i # j => groups[i][1].hash_value # groups[j][1].hash_value
    /\ \A r \in Range(scanned) :
         DigestCount(r.hash_value) = 1 =>
           /\ r.path \in DOMAIN files
           /\ \A m \in Range(moves) : m.src # r.path

C5_Witness ==
  /\ exact_match_var
  /\ pc = "completed"
  /\ moves # <<>>
  /\ \E r \in Range(scanned) : DigestCount(r.hash_value) >= 2

\* C6: in similarity mode a record whose digest equals that of another
\* scanned record is in no group and its file is never moved.
C6_ExactDuplicatesOutOfPool ==
  (~exact_match_var /\ Scanning) =>
    \A r \in Range(scanned) :
      DigestCount(r.hash_value) >= 2 =>
        /\ \A g \in Range(groups) : r \notin Range(g)
        /\ r.path \in DOMAIN files
        /\ \A m \in Range(moves) : m.src # r.path

C6_Witness ==
  /\ ~exact_match_var
  /\ pc = "completed"
  /\ \E i, j \in DOMAIN scanned :
       /\ scanned[i].path # scanned[j].path
       /\ scanned[i].hash_value = scanned[j].hash_value

\* C7: in similarity mode, under every accepted threshold, a record whose
\* perceptual hash is null is a member of no group and its file is never moved.
C7_NullHashNeverGrouped ==
  (~exact_match_var /\ Scanning) =>
    \A r \in Range(scanned) :
      r.image_hash.none =>
        /\ \A g \in Range(groups) : r \notin Range(g)
        /\ \A m \in Range(moves) : m.src # r.path

\* C8: the set handle_duplicates returns is exactly the set of holding
\* directories into which at least one file was moved during the run.
C8_ResultIsDirsThatReceived ==
  pc = "completed" => result = {m.dst.parent : m \in Range(moves)}

\* C9: a failure while relocating one file never stops the run.
C9_FailureNeverStopsRun ==
  faults > 0 => pc # "failed"

\* C10: with an empty directory list, a threshold outside 0..99 or a source
\* directory that does not exist, the run is refused: nothing is scanned,
\* grouped or moved.
FatalCondition ==
  \/ source_dirs = <<>>
  \/ ~(0 <= similarity_var /\ similarity_var <= MaxPercent)
  \/ \E i \in DOMAIN source_dirs : source_dirs[i] \notin dirs

C10_FatalConditionRefused ==
  FatalCondition =>
    /\ pc \in {"idle", "rejected"}
    /\ scanned = <<>>
    /\ groups = <<>>
    /\ moves = <<>>

\* ---- the clustering of find_similar_images
\* the similarity pool: the scanned records whose digest no other record has
Pool == SelectSeq(scanned, LAMBDA r : DigestCount(r.hash_value) = 1)

Similar(a, b) ==
  MeetsThreshold(calculate_similarity(a.image_hash, b.image_hash), similarity_var)

\* S is the set of seed positions of the pool: a record is a seed exactly
\* when no earlier seed is similar to it
IsSeedSet(S) ==
  \A i \in DOMAIN Pool :
    i \in S <=> ~\E h \in S : h < i /\ Similar(Pool[h], Pool[i])

\* the positions that join seed i: later, not seeds, similar to the seed and
\* to no earlier seed
Joiners(S, i) ==
  {j \in DOMAIN Pool :
     /\ j > i
     /\ j \notin S
     /\ Similar(Pool[i], Pool[j])
     /\ ~\E h \in S : h < i /\ Similar(Pool[h], Pool[j])}

\* the records at the positions of P, in pool order
RECURSIVE InOrder(_)
InOrder(P) ==
  IF P = {} THEN <<>>
  ELSE LET m == CHOOSE x \in P : \A y \in P : x <= y
       IN  <<Pool[m]>> \o InOrder(P \ {m})

\* the groups of the seeds of S at or after position i, seeds alone left out
RECURSIVE SeedGroups(_, _)
SeedGroups(S, i) ==
  IF i > Len(Pool) THEN <<>>
  ELSE IF i \in S /\ Joiners(S, i) # {}
       THEN <<InOrder({i} \cup Joiners(S, i))>> \o SeedGroups(S, i + 1)
       ELSE SeedGroups(S, i + 1)

\* C11: in similarity mode the groups are the greedy clustering of the pool
\* by seed, in scan order: a record joins the first seed before it that it is
\* similar to, compared with the seed only; so every non-seed member is
\* similar to its group's first member, every group has at least 2 members,
\* no record is in two groups, and two pool records 62/64 similar form one
\* group at 95 percent and none at 99 percent.
C11_GreedyClusteringBySeed ==
  (~exact_match_var /\ Scanning) =>
    /\ \E S \in SUBSET (DOMAIN Pool) :
         IsSeedSet(S) /\ groups = SeedGroups(S, 1)
    /\ \A g \in Range(groups) :
         /\ Len(g) >= 2
         /\ \A k \in 2..Len(g) : Similar(g[1], g[k])
         /\ \A k, l \in DOMAIN g : k # l => g[k] # g[l]
    /\ \A i, j \in DOMAIN groups :
         i # j => Range(groups[i]) \cap Range(groups[j]) = {}
    /\ (Len(Pool) = 2 /\ calculate_similarity(Pool[1].image_hash,
                                              Pool[2].image_hash) = 62) =>
         /\ similarity_var = 95 => groups = <<Pool>>
         /\ similarity_var = 99 => groups = <<>>

\* a finished run at 95 percent with a group of three whose two joiners are
\* not similar to each other: they were compared with the seed only
C11_Witness ==
  /\ ~exact_match_var
  /\ pc = "completed"
  /\ similarity_var = 95
  /\ \E g \in Range(groups) :
       /\ Len(g) = 3
       /\ ~Similar(g[2], g[3])
       /\ ~Similar(g[3], g[2])

====
